---- MODULE Spec2Model ----
(***************************************************************************)
(* Model of the constrained string generator of the random provider:       *)
(* internal/provider_fm/string.go (lengthValidator, validateLength,        *)
(* createString, generateRandomBytes).                                     *)
(*                                                                         *)
(* A character is a one-character string, a Go string is a sequence of     *)
(* characters.  The character classes are the prefixes of length ClassSize *)
(* of the source's constants; the random source is a nondeterministic      *)
(* choice of every value it can return, or of its failure.                 *)
(*                                                                         *)
(* Also modelled: the import functions and the password state upgrade of   *)
(* the SDK provider, and the seeded permutation engine (Shuffle), whose    *)
(* implementation is described by the design document, section 4.2.        *)
(***************************************************************************)
EXTENDS Integers, Sequences, FiniteSets, TLC

\* ---------------------------------------------------------------- bounds
MaxLen == 2        \* largest plan.Length
MaxMin == 1        \* largest min_upper, min_lower, min_numeric, min_special
ClassSize == 1     \* characters kept of each class constant
MaxKey == 1        \* order keys are bytes 0..MaxKey
MaxSalt == 1       \* bcrypt salts are 0..MaxSalt
MaxInput == 3      \* longest input list of Shuffle

\* ------------------------------------------------------- character classes
numCharsFull == <<"0", "1", "2", "3", "4", "5", "6", "7", "8", "9">>
lowerCharsFull ==
    <<"a", "b", "c", "d", "e", "f", "g", "h", "i", "j", "k", "l", "m",
      "n", "o", "p", "q", "r", "s", "t", "u", "v", "w", "x", "y", "z">>
upperCharsFull ==
    <<"A", "B", "C", "D", "E", "F", "G", "H", "I", "J", "K", "L", "M",
      "N", "O", "P", "Q", "R", "S", "T", "U", "V", "W", "X", "Y", "Z">>
specialCharsFull ==
    <<"!", "@", "#", "$", "%", "&", "*", "(", ")", "-", "_", "=", "+",
      "[", "]", "{", "}", "<", ">", ":", "?">>

numChars == SubSeq(numCharsFull, 1, ClassSize)
lowerChars == SubSeq(lowerCharsFull, 1, ClassSize)
upperChars == SubSeq(upperCharsFull, 1, ClassSize)
defaultSpecialChars == SubSeq(specialCharsFull, 1, ClassSize)

\* override_special values of the plans: unset (""), a set of its own, and
\* sets whose content is that of another class
customSpecial == <<"~">>
OverrideSpecials == {<<>>, customSpecial, upperChars, lowerChars}

Range(s) == {s[i] : i \in DOMAIN s}

\* ------------------------------------------------------------------ plans
PlanFields(lengths) ==
    [Length : lengths,
     Upper : BOOLEAN, MinUpper : 0..MaxMin,
     Lower : BOOLEAN, MinLower : 0..MaxMin,
     Number : BOOLEAN, MinNumeric : 0..MaxMin,
     Special : BOOLEAN, MinSpecial : 0..MaxMin,
     OverrideSpecial : OverrideSpecials]

SumOfMinimums(config) ==
    config.MinUpper + config.MinLower + config.MinNumeric + config.MinSpecial

\* the plans of the model: the valid ones, and the ones whose minimums add
\* up to one more than the length
Plans == {p \in PlanFields(0..MaxLen) : SumOfMinimums(p) <= p.Length + 1}

NoState == [set |-> FALSE]

VARIABLES
    plan,          \* the plan / config of the request
    pc,            \* position of the request
    pending,       \* keys of minMapping the range loop has not visited
    result,        \* createString's result buffer
    order,         \* createString's order keys
    diagnostics,   \* resp.Diagnostics: summaries of the errors added
    state,         \* resp.State
    outcome,       \* "running", "rejected", "returned", "panic"
    entropyFailed, \* the secure random source returned an error
    sensitive,     \* createString / importString's sensitive argument
    importID,      \* req.ID of an import request
    peer,          \* the locals of the invocation that is not scheduled
    running,       \* which of the two invocations the variables above hold
    shInput,       \* Shuffle: the input sequence
    stream,        \* Shuffle: the draws the seeded generator has shown so far
    shuffled,      \* Shuffle: the last invocation and what it returned
    rawState,      \* resourcePasswordStateUpgradeV0: the raw state given
    upgraded       \* resourcePasswordStateUpgradeV0: what it returned

vars == <<plan, pc, pending, result, order, diagnostics, state, outcome,
          entropyFailed, sensitive, importID, peer, running, shInput, stream,
          shuffled, rawState, upgraded>>

\* what one run of the string resource leaves alone
shuffleVars == <<shInput, stream, shuffled>>
upgradeVars == <<rawState, upgraded>>
createFrame == <<sensitive, importID, peer, running, shuffleVars, upgradeVars>>

\* the values of the parts of the model a specification does not use
NoPeer == [set |-> FALSE]
NotShuffled == [set |-> FALSE]
NoGenerator == [seed |-> "", draws |-> <<>>]
NotUpgraded == [set |-> FALSE]
NilState == [nil |-> TRUE]

NoImport == importID = <<>>
NoConcurrency == peer = NoPeer /\ running = 1
NoShuffle == shInput = <<>> /\ stream = NoGenerator /\ shuffled = NotShuffled
NoUpgrade == rawState = NilState /\ upgraded = NotUpgraded

\* ------------------------------------------------------------ diagnostics
ErrLengthAtLeastOne == "expected length to be at least 1"
ErrLengthLessThanSum == "length must be >= min_upper + min_lower + min_numeric + min_special"
ErrRandomBytes == "error generating random bytes"

HasError(diags) == Len(diags) > 0

\* lengthValidator.Validate accepting a length of 0
lengthValidatorAcceptsZero(t) ==
    IF t < 0 THEN <<ErrLengthAtLeastOne>> ELSE <<>>

\* lengthValidator.Validate: the diagnostics it adds for the length t
lengthValidatorValidate(t) ==
    IF t < 1 THEN <<ErrLengthAtLeastOne>> ELSE <<>>

\* validateLength rejecting a length equal to the sum
validateLengthStrict(config) ==
    IF config.Length <= SumOfMinimums(config)
    THEN <<ErrLengthLessThanSum>>
    ELSE <<>>

\* validateLength: the diagnostics it adds for the config
validateLength(config) ==
    IF config.Length < SumOfMinimums(config)
    THEN <<ErrLengthLessThanSum>>
    ELSE <<>>

\* ------------------------------------------------------------ createString
\* specialChars taking override_special verbatim, the empty string too
specialCharsVerbatim(p) == p.OverrideSpecial

\* specialChars after the override_special test
specialChars(p) ==
    IF p.OverrideSpecial # <<>> THEN p.OverrideSpecial ELSE defaultSpecialChars

\* chars: the pool of the enabled classes
chars(p) ==
    (IF p.Upper THEN upperChars ELSE <<>>)
    \o (IF p.Lower THEN lowerChars ELSE <<>>)
    \o (IF p.Number THEN numChars ELSE <<>>)
    \o (IF p.Special THEN specialChars(p) ELSE <<>>)

\* minMapping: a Go map keyed by the content of the character set; the
\* entries are stored in source order, a later entry with an equal key
\* replaces the earlier one
minMapping(p) ==
    [k \in {numChars, lowerChars, upperChars, specialChars(p)} |->
        IF k = specialChars(p) THEN p.MinSpecial
        ELSE IF k = upperChars THEN p.MinUpper
        ELSE IF k = lowerChars THEN p.MinLower
        ELSE p.MinNumeric]

\* generateRandomBytes panics: make([]byte, length) with length < 0, or
\* rand.Int with a limit of 0
generateRandomBytesPanics(charSet, length) ==
    \/ length < 0
    \/ length > 0 /\ Len(charSet) = 0

\* generateRandomBytes: every (bytes, err) it can return; idx is what
\* rand.Int returns at each position
generateRandomBytes(charSet, length) ==
    {[err |-> FALSE, bytes |-> [i \in 1..length |-> charSet[idx[i] + 1]]] :
        idx \in [1..length -> 0..(Len(charSet) - 1)]}
    \cup (IF length > 0 THEN {[err |-> TRUE, bytes |-> <<>>]} ELSE {})

\* sort.Slice(result, less) with less(i, j) = order[i] < order[j].  For a
\* slice of at most 6 elements sort.Slice is insertionSort_func:
\*   for i := a + 1; i < b; i++ {
\*       for j := i; j > a && less(j, j-1); j-- { swap(j, j-1) } }
\* swap exchanges elements of result only: order is read at fixed indices.
SwapOverwrites(data, i, j) ==
    [data EXCEPT ![i] = data[j]]

Swap(data, i, j) ==
    [data EXCEPT ![i] = data[j], ![j] = data[i]]

less(keys, i, j) == keys[i] < keys[j]

RECURSIVE insertionInner(_, _, _)
insertionInner(data, keys, j) ==
    IF j > 1 /\ less(keys, j, j - 1)
    THEN insertionInner(Swap(data, j, j - 1), keys, j - 1)
    ELSE data

RECURSIVE insertionOuter(_, _, _)
insertionOuter(data, keys, i) ==
    IF i > Len(data)
    THEN data
    ELSE insertionOuter(insertionInner(data, keys, i), keys, i + 1)

sortSlice(data, keys) == insertionOuter(data, keys, 2)

\* the remainder length without the minimum draws taken off
remainderLengthIgnoringMinimums(p, buf) == p.Length

\* the remainder length handed to generateRandomBytes(&chars, ...)
remainderLength(p, buf) == p.Length - Len(buf)

\* the id of a sensitive resource, "none"
idNone == <<"n", "o", "n", "e">>

\* the state createString stores, ID being the result also when sensitive
newStateIdIsResult(p, buf) ==
    [set |-> TRUE, ID |-> buf, Result |-> buf, Length |-> p.Length]

\* the state createString stores: ID is the result, "none" when sensitive
newState(p, buf) ==
    [set |-> TRUE,
     ID |-> IF sensitive THEN idNone ELSE buf,
     Result |-> buf,
     Length |-> p.Length]

\* ------------------------------------------------------------------- Init
Init ==
    /\ plan \in Plans
    /\ pc \in {"validateAttribute", "create"}
    /\ pending = {}
    /\ result = <<>>
    /\ order = <<>>
    /\ diagnostics = <<>>
    /\ state = NoState
    /\ outcome = "running"
    /\ entropyFailed = FALSE
    /\ sensitive = FALSE
    /\ NoImport
    /\ NoConcurrency
    /\ NoShuffle
    /\ NoUpgrade

\* ---------------------------------------------------------------- actions
\* the host validates the length attribute
LengthValidatorValidate ==
    /\ pc = "validateAttribute"
    /\ diagnostics' = diagnostics \o lengthValidatorValidate(plan.Length)
    /\ pc' = "validateConfig"
    /\ UNCHANGED <<plan, pending, result, order, state, outcome, entropyFailed>>
    /\ UNCHANGED createFrame

\* the host validates the resource config; a config with an error
\* diagnostic is rejected and createString is not called
ValidateLength ==
    /\ pc = "validateConfig"
    /\ diagnostics' = diagnostics \o validateLength(plan)
    /\ IF HasError(diagnostics')
       THEN pc' = "done" /\ outcome' = "rejected"
       ELSE pc' = "create" /\ outcome' = outcome
    /\ UNCHANGED <<plan, pending, result, order, state, entropyFailed>>
    /\ UNCHANGED createFrame

\* createString up to the range loop: the plan is read, chars and
\* minMapping are built, result is empty
CreateStringBegin ==
    /\ pc = "create"
    /\ pending' = DOMAIN minMapping(plan)
    /\ result' = <<>>
    /\ pc' = "minimums"
    /\ UNCHANGED <<plan, order, diagnostics, state, outcome, entropyFailed>>
    /\ UNCHANGED createFrame

\* one iteration of `for k, v := range minMapping`, the keys in any order
MinimumDraw ==
    /\ pc = "minimums"
    /\ pending # {}
    /\ \E k \in pending :
         LET v == minMapping(plan)[k] IN
         IF generateRandomBytesPanics(k, v)
         THEN /\ outcome' = "panic"
              /\ pc' = "done"
              /\ UNCHANGED <<pending, result, diagnostics, entropyFailed>>
         ELSE \E r \in generateRandomBytes(k, v) :
                IF r.err
                THEN /\ diagnostics' = Append(diagnostics, ErrRandomBytes)
                     /\ entropyFailed' = TRUE
                     /\ outcome' = "returned"
                     /\ pc' = "done"
                     /\ UNCHANGED <<pending, result>>
                ELSE /\ result' = result \o r.bytes
                     /\ pending' = pending \ {k}
                     /\ UNCHANGED <<pc, diagnostics, outcome, entropyFailed>>
    /\ UNCHANGED <<plan, order, state>>
    /\ UNCHANGED createFrame

\* the remainder: generateRandomBytes(&chars, length-int64(len(result)))
RemainderDraw ==
    /\ pc = "minimums"
    /\ pending = {}
    /\ LET n == remainderLength(plan, result) IN
       IF generateRandomBytesPanics(chars(plan), n)
       THEN /\ outcome' = "panic"
            /\ pc' = "done"
            /\ UNCHANGED <<result, diagnostics, entropyFailed>>
       ELSE \E r \in generateRandomBytes(chars(plan), n) :
              IF r.err
              THEN /\ diagnostics' = Append(diagnostics, ErrRandomBytes)
                   /\ entropyFailed' = TRUE
                   /\ outcome' = "returned"
                   /\ pc' = "done"
                   /\ UNCHANGED result
              ELSE /\ result' = result \o r.bytes
                   /\ pc' = "order"
                   /\ UNCHANGED <<diagnostics, outcome, entropyFailed>>
    /\ UNCHANGED <<plan, pending, order, state>>
    /\ UNCHANGED createFrame

\* rand.Read(order) fails and createString goes on to set the state
OrderReadFailsAndContinues ==
    /\ pc = "order"
    /\ Len(result) > 0
    /\ diagnostics' = Append(diagnostics, ErrRandomBytes)
    /\ entropyFailed' = TRUE
    /\ order' = [i \in 1..Len(result) |-> 0]
    /\ state' = newState(plan, result)
    /\ outcome' = "returned"
    /\ pc' = "done"
    /\ UNCHANGED <<plan, pending, result>>
    /\ UNCHANGED createFrame

\* rand.Read(order) fails: an error diagnostic, no state
OrderReadFails ==
    /\ pc = "order"
    /\ Len(result) > 0
    /\ diagnostics' = Append(diagnostics, ErrRandomBytes)
    /\ entropyFailed' = TRUE
    /\ outcome' = "returned"
    /\ pc' = "done"
    /\ UNCHANGED <<plan, pending, result, order, state>>
    /\ UNCHANGED createFrame

\* rand.Read(order) succeeds: result is sorted and the state is set
SortAndSetState ==
    /\ pc = "order"
    /\ \E keys \in [1..Len(result) -> 0..MaxKey] :
         /\ order' = keys
         /\ result' = sortSlice(result, keys)
    /\ state' = newState(plan, result')
    /\ outcome' = "returned"
    /\ pc' = "done"
    /\ UNCHANGED <<plan, pending, diagnostics, entropyFailed>>
    /\ UNCHANGED createFrame

Next ==
    \/ LengthValidatorValidate
    \/ ValidateLength
    \/ CreateStringBegin
    \/ MinimumDraw
    \/ RemainderDraw
    \/ OrderReadFails
    \/ SortAndSetState

Spec == Init /\ [][Next]_vars

\* ------------------------------------------------------------------ import
\* the plan variable of the runs that create no string
noPlan ==
    [Length |-> 0,
     Upper |-> TRUE, MinUpper |-> 0,
     Lower |-> TRUE, MinLower |-> 0,
     Number |-> TRUE, MinNumeric |-> 0,
     Special |-> TRUE, MinSpecial |-> 0,
     OverrideSpecial |-> <<>>]

\* req.ID / d.Id() of the import requests: empty, two strings, and "none"
ImportIDs == {<<>>, <<"a">>, <<"a", "0">>, idNone}

\* generateHash: bcrypt.GenerateFromPassword returns a salted hash of
\* toHash, or an error and no hash
generateHash(toHash) ==
    {[err |-> FALSE, hash |-> <<"$2a$", ToString(salt)>> \o toHash] : salt \in 0..MaxSalt}
    \cup {[err |-> TRUE, hash |-> <<>>]}

ErrGenerateHash == "resource password import failed, generate hash error"

\* the state importString stores for the id
importedState(id) ==
    [set |-> TRUE,
     ID |-> IF sensitive THEN idNone ELSE id,
     Result |-> id]

\* importString of the framework provider (random_string, random_password)
ImportString ==
    /\ pc = "import"
    /\ state' = importedState(importID)
    /\ outcome' = "returned"
    /\ pc' = "done"
    /\ UNCHANGED <<plan, pending, result, order, diagnostics, entropyFailed>>
    /\ UNCHANGED createFrame

\* importStringFunc of the SDK provider (random_string): the id stays, result
\* is set to it
ImportStringFunc ==
    /\ pc = "importSDK"
    /\ ~sensitive
    /\ LET val == importID IN
       state' = [set |-> TRUE, ID |-> importID, Result |-> val]
    /\ outcome' = "returned"
    /\ pc' = "done"
    /\ UNCHANGED <<plan, pending, result, order, diagnostics, entropyFailed>>
    /\ UNCHANGED createFrame

\* importPasswordFunc of the SDK provider (random_password): the id becomes
\* "none", result the former id, bcrypt_hash its hash; a hash error returns
\* no resource
ImportPasswordFunc ==
    /\ pc = "importSDK"
    /\ sensitive
    /\ LET val == importID IN
       \E h \in generateHash(val) :
          IF h.err
          THEN /\ diagnostics' = Append(diagnostics, ErrGenerateHash)
               /\ UNCHANGED state
          ELSE /\ state' = [set |-> TRUE, ID |-> idNone, Result |-> val,
                            BcryptHash |-> h.hash]
               /\ UNCHANGED diagnostics
    /\ outcome' = "returned"
    /\ pc' = "done"
    /\ UNCHANGED <<plan, pending, result, order, entropyFailed>>
    /\ UNCHANGED createFrame

\* create and import of random_string (sensitive false) and random_password
\* (sensitive true), on the plans with every class enabled
InitId ==
    /\ sensitive \in BOOLEAN
    /\ pc \in {"create", "import", "importSDK"}
    /\ IF pc = "create"
       THEN /\ plan \in {p \in Plans : p.Upper /\ p.Lower /\ p.Number /\ p.Special}
            /\ importID = <<>>
       ELSE /\ plan = noPlan
            /\ importID \in ImportIDs
    /\ pending = {}
    /\ result = <<>>
    /\ order = <<>>
    /\ diagnostics = <<>>
    /\ state = NoState
    /\ outcome = "running"
    /\ entropyFailed = FALSE
    /\ NoConcurrency
    /\ NoShuffle
    /\ NoUpgrade

NextId ==
    \/ CreateStringBegin
    \/ MinimumDraw
    \/ RemainderDraw
    \/ OrderReadFails
    \/ SortAndSetState
    \/ ImportString
    \/ ImportStringFunc
    \/ ImportPasswordFunc

SpecId == InitId /\ [][NextId]_vars

\* ----------------------------------------------------------- state upgrade
\* the keys and the interface{} values of the raw states: strings and a number
RawKeys == {"result", "length", "bcrypt_hash"}
RawValues ==
    {[type |-> "string", v |-> <<>>],
     [type |-> "string", v |-> <<"a">>],
     [type |-> "float64", v |-> <<"1">>]}

\* map[string]interface{}: nil, or a map of some of the keys
RawStates ==
    {NilState} \cup
    {[nil |-> FALSE, m |-> f] : f \in UNION {[ks -> RawValues] : ks \in SUBSET RawKeys}}

\* m[k] = v, on a fresh map that holds k only
setKeyOnly(m, k, v) ==
    [x \in {k} |-> v]

\* m[k] = v
setKey(m, k, v) ==
    [x \in (DOMAIN m) \cup {k} |-> IF x = k THEN v ELSE m[x]]

\* rawState["result"].(string): ok is false for a missing key and for a
\* value of another type
resultIsString(raw) ==
    /\ "result" \in DOMAIN raw.m
    /\ raw.m["result"].type = "string"

\* the returns of resourcePasswordStateUpgradeV0 for the raw state
resourcePasswordStateUpgradeV0(raw) ==
    IF raw.nil
    THEN {[set |-> TRUE, err |-> TRUE, state |-> NilState]}
    ELSE IF ~resultIsString(raw)
    THEN {[set |-> TRUE, err |-> TRUE, state |-> NilState]}
    ELSE {IF h.err
          THEN [set |-> TRUE, err |-> TRUE, state |-> NilState]
          ELSE [set |-> TRUE, err |-> FALSE,
                state |-> [nil |-> FALSE,
                           m |-> setKey(raw.m, "bcrypt_hash",
                                        [type |-> "string", v |-> h.hash])]]
          : h \in generateHash(raw.m["result"].v)}

\* the upgrade call; on success the map of the caller is the one returned
ResourcePasswordStateUpgradeV0 ==
    /\ pc = "upgrade"
    /\ \E r \in resourcePasswordStateUpgradeV0(rawState) :
          /\ upgraded' = r
          /\ rawState' = IF r.err THEN rawState ELSE r.state
    /\ pc' = "done"
    /\ outcome' = "returned"
    /\ UNCHANGED <<plan, pending, result, order, diagnostics, state, entropyFailed>>
    /\ UNCHANGED <<sensitive, importID, peer, running, shuffleVars>>

InitUpgrade ==
    /\ plan = noPlan
    /\ pc = "upgrade"
    /\ pending = {}
    /\ result = <<>>
    /\ order = <<>>
    /\ diagnostics = <<>>
    /\ state = NoState
    /\ outcome = "running"
    /\ entropyFailed = FALSE
    /\ sensitive = TRUE
    /\ NoImport
    /\ NoConcurrency
    /\ NoShuffle
    /\ rawState \in RawStates
    /\ upgraded = NotUpgraded

NextUpgrade == ResourcePasswordStateUpgradeV0

SpecUpgrade == InitUpgrade /\ [][NextUpgrade]_vars

\* ------------------------------------------------------------- concurrency
\* the locals of the invocation of createString that is running
current ==
    [set |-> TRUE, plan |-> plan, pc |-> pc, pending |-> pending,
     result |-> result, order |-> order, diagnostics |-> diagnostics,
     state |-> state, outcome |-> outcome, entropyFailed |-> entropyFailed]

\* the plans of the two invocations: one whose override_special is the
\* lower-case set, one without override
ConcurrentPlans ==
    {[Length |-> 1,
      Upper |-> FALSE, MinUpper |-> 0,
      Lower |-> TRUE, MinLower |-> 1,
      Number |-> TRUE, MinNumeric |-> 0,
      Special |-> FALSE, MinSpecial |-> 0,
      OverrideSpecial |-> lowerChars],
     [Length |-> 2,
      Upper |-> TRUE, MinUpper |-> 1,
      Lower |-> FALSE, MinLower |-> 0,
      Number |-> TRUE, MinNumeric |-> 0,
      Special |-> FALSE, MinSpecial |-> 0,
      OverrideSpecial |-> <<>>]}

\* the locals of an invocation that has just been called with plan p
called(p) ==
    [set |-> TRUE, plan |-> p, pc |-> "create", pending |-> {},
     result |-> <<>>, order |-> <<>>, diagnostics |-> <<>>,
     state |-> NoState, outcome |-> "running", entropyFailed |-> FALSE]

\* the scheduler runs the other invocation: each has its own locals, and
\* createString has no package-level variable
ContextSwitch ==
    /\ peer.set
    /\ peer' = current
    /\ plan' = peer.plan
    /\ pc' = peer.pc
    /\ pending' = peer.pending
    /\ result' = peer.result
    /\ order' = peer.order
    /\ diagnostics' = peer.diagnostics
    /\ state' = peer.state
    /\ outcome' = peer.outcome
    /\ entropyFailed' = peer.entropyFailed
    /\ running' = 3 - running
    /\ UNCHANGED <<sensitive, importID, shuffleVars, upgradeVars>>

\* two invocations of createString, both called and neither started
InitConcurrent ==
    /\ plan \in ConcurrentPlans
    /\ pc = "create"
    /\ pending = {}
    /\ result = <<>>
    /\ order = <<>>
    /\ diagnostics = <<>>
    /\ state = NoState
    /\ outcome = "running"
    /\ entropyFailed = FALSE
    /\ sensitive = FALSE
    /\ NoImport
    /\ peer \in {called(p) : p \in ConcurrentPlans}
    /\ running = 1
    /\ NoShuffle
    /\ NoUpgrade

NextConcurrent ==
    \/ CreateStringBegin
    \/ MinimumDraw
    \/ RemainderDraw
    \/ OrderReadFails
    \/ SortAndSetState
    \/ ContextSwitch

SpecConcurrent == InitConcurrent /\ [][NextConcurrent]_vars

\* ----------------------------------------------------------------- shuffle
\* the seeds of the calls: none, and the seed of the acceptance tests
Seeds == {"", "-"}

\* the longest requested output: two passes over the longest input less one
MaxOut == MaxInput + 2

listElements == <<"a", "b", "c", "d", "e">>

\* the input lists: the prefixes of a, b, c, d, e and a shorter one with its
\* first element repeated
ShuffleInputs ==
    {SubSeq(listElements, 1, n) : n \in 0..MaxInput}
    \cup {[i \in 1..(MaxInput - 1) |-> IF i <= 2 THEN "a" ELSE listElements[i]]}

\* passes over an input of n elements that outputLength elements take
passesFor(n, outputLength) == (outputLength + n - 1) \div n

\* draw t of a generator is for index i = n-1, n-2, .., 0 of its pass, and
\* lies in 0..i
drawBound(n, t) == n - 1 - ((t - 1) % n)

\* the streams of D draws that start with s
RECURSIVE Streams(_, _, _)
Streams(s, n, D) ==
    IF Len(s) >= D
    THEN {s}
    ELSE UNION {Streams(Append(s, j), n, D) : j \in 0..drawBound(n, Len(s) + 1)}

\* a generator that is not keyed by the seed
generatorDrawsFresh(seed, n, D) ==
    Streams(<<>>, n, D)

\* step 2: the first D draws of the generator: keyed by the seed when there is
\* one, the secure source otherwise
generatorDraws(seed, n, D) ==
    IF seed = ""
    THEN Streams(<<>>, n, D)
    ELSE {SubSeq(stream.draws, 1, D)}

\* element i takes the value of element j, which keeps its own
swapStepCopies(perm, i, j) ==
    [perm EXCEPT ![i] = perm[j]]

\* step 3: swap element i with element j
swapStep(perm, i, j) ==
    [perm EXCEPT ![i] = perm[j], ![j] = perm[i]]

\* step 3: for index i from last to first, swap element i with the element
\* at the drawn index of 0..i (d[t] is the draw for i = n - t)
RECURSIVE fisherYates(_, _, _)
fisherYates(perm, d, t) ==
    IF t > Len(perm)
    THEN perm
    ELSE fisherYates(swapStep(perm, Len(perm) - t + 1, d[t] + 1), d, t + 1)

\* all of s
truncateNot(s, k) == s

\* the last k elements of s
truncateTail(s, k) == SubSeq(s, Len(s) - k + 1, Len(s))

\* steps 4 and 5: the first k elements of s
truncate(s, k) == SubSeq(s, 1, k)

\* step 5: passes p..passes, each a shuffle of the full input by its own
\* n draws
RECURSIVE shufflePasses(_, _, _, _)
shufflePasses(n, draws, p, passes) ==
    IF p > passes
    THEN <<>>
    ELSE fisherYates([i \in 1..n |-> i], SubSeq(draws, (p - 1) * n + 1, p * n), 1)
         \o shufflePasses(n, draws, p + 1, passes)

\* the input positions Shuffle returns, in order
shufflePositions(n, outputLength, draws) ==
    truncate(shufflePasses(n, draws, 1, passesFor(n, outputLength)), outputLength)

\* the elements of the input at the positions, in order
elementsAt(input, positions) ==
    [x \in 1..Len(positions) |-> input[positions[x]]]

\* Shuffle(input, outputLength, seed), and what it returned; the input and
\* the seed are those the list was configured with
Shuffle ==
    /\ pc = "shuffle"
    /\ \E outputLength \in 0..MaxOut :
          LET n == Len(shInput)
              seed == stream.seed
              repeats == IF shuffled.set /\ seed # "" /\ shuffled.seed = seed
                         THEN IF shuffled.outputLength = outputLength
                              THEN "call"
                              ELSE "seed"
                         ELSE "no"
          IN IF outputLength = 0 \/ n = 0
             THEN shuffled' = [set |-> TRUE, seed |-> seed,
                               outputLength |-> outputLength, repeats |-> repeats,
                               positions |-> <<>>, result |-> <<>>]
             ELSE \E draws \in generatorDraws(seed, n, passesFor(n, outputLength) * n) :
                     LET positions == shufflePositions(n, outputLength, draws) IN
                     shuffled' = [set |-> TRUE, seed |-> seed,
                                  outputLength |-> outputLength, repeats |-> repeats,
                                  positions |-> positions,
                                  result |-> elementsAt(shInput, positions)]
    /\ UNCHANGED <<shInput, stream>>
    /\ UNCHANGED <<plan, pc, pending, result, order, diagnostics, state, outcome,
                   entropyFailed>>
    /\ UNCHANGED <<sensitive, importID, peer, running, upgradeVars>>

\* an input list, a seed, and the stream of the generator that the seed keys
InitShuffle ==
    /\ plan = noPlan
    /\ pc = "shuffle"
    /\ pending = {}
    /\ result = <<>>
    /\ order = <<>>
    /\ diagnostics = <<>>
    /\ state = NoState
    /\ outcome = "running"
    /\ entropyFailed = FALSE
    /\ sensitive = FALSE
    /\ NoImport
    /\ NoConcurrency
    /\ NoUpgrade
    /\ shInput \in ShuffleInputs
    /\ \E seed \in Seeds :
          stream \in {[seed |-> seed, draws |-> d] :
                        d \in IF seed = "" \/ Len(shInput) = 0
                              THEN {<<>>}
                              ELSE Streams(<<>>, Len(shInput),
                                           passesFor(Len(shInput), MaxOut) * Len(shInput))}
    /\ shuffled = NotShuffled

NextShuffle == Shuffle

SpecShuffle == InitShuffle /\ [][NextShuffle]_vars

\* a run of createString on the plans of length MaxLen + 1, where the
\* reordering has three or more elements to move
SortLen == MaxLen + 1

InitSort ==
    /\ plan \in {p \in PlanFields({SortLen}) : SumOfMinimums(p) <= p.Length + 1}
    /\ pc \in {"validateAttribute", "create"}
    /\ pending = {}
    /\ result = <<>>
    /\ order = <<>>
    /\ diagnostics = <<>>
    /\ state = NoState
    /\ outcome = "running"
    /\ entropyFailed = FALSE
    /\ sensitive = FALSE
    /\ NoImport
    /\ NoConcurrency
    /\ NoShuffle
    /\ NoUpgrade

SpecSort == InitSort /\ [][Next]_vars

\* the reordering alone: createString has drawn a buffer of SortLen
\* characters from the pool of all classes and reads the order keys
reorderPlan ==
    [Length |-> SortLen,
     Upper |-> TRUE, MinUpper |-> 0,
     Lower |-> TRUE, MinLower |-> 0,
     Number |-> TRUE, MinNumeric |-> 0,
     Special |-> TRUE, MinSpecial |-> 0,
     OverrideSpecial |-> <<>>]

InitReorder ==
    /\ plan = reorderPlan
    /\ pc = "order"
    /\ pending = {}
    /\ result \in [1..SortLen -> Range(chars(reorderPlan))]
    /\ order = <<>>
    /\ diagnostics = <<>>
    /\ state = NoState
    /\ outcome = "running"
    /\ entropyFailed = FALSE
    /\ sensitive = FALSE
    /\ NoImport
    /\ NoConcurrency
    /\ NoShuffle
    /\ NoUpgrade

NextReorder ==
    \/ OrderReadFails
    \/ SortAndSetState

SpecReorder == InitReorder /\ [][NextReorder]_vars

\* ------------------------------------------------------------- properties
\* number of positions of s that hold a member of set
Count(s, set) == Cardinality({i \in DOMAIN s : s[i] \in set})

MinimumsNonNegative(p) ==
    /\ p.MinUpper >= 0
    /\ p.MinLower >= 0
    /\ p.MinNumeric >= 0
    /\ p.MinSpecial >= 0

AllMinimumsZero(p) ==
    /\ p.MinUpper = 0
    /\ p.MinLower = 0
    /\ p.MinNumeric = 0
    /\ p.MinSpecial = 0

\* the combined pool of the enabled classes, as the claims describe it
EnabledPool(p) ==
    (IF p.Upper THEN Range(upperChars) ELSE {})
    \cup (IF p.Lower THEN Range(lowerChars) ELSE {})
    \cup (IF p.Number THEN Range(numChars) ELSE {})
    \cup (IF p.Special
          THEN (IF p.OverrideSpecial # <<>>
                THEN Range(p.OverrideSpecial)
                ELSE Range(defaultSpecialChars))
          ELSE {})

ValidPlan(p) ==
    /\ MinimumsNonNegative(p)
    /\ p.Length >= p.MinUpper + p.MinLower + p.MinNumeric + p.MinSpecial
    /\ EnabledPool(p) # {}

Stored == pc = "done" /\ state.set

\* createString was called and has ended
CreateEnded == pc = "done" /\ outcome # "rejected"

\* C1: for a valid plan (minimums non-negative, length at least their sum,
\* a non-empty pool) a successful createString stores a result of exactly
\* `length` characters, whatever the random source returned.
C1_ExactLength ==
    (ValidPlan(plan) /\ Stored) => Len(state.Result) = plan.Length

\* C1 witness: a stored result of the largest length built from a minimum
\* draw and a remainder draw.
C1_Witness ==
    /\ ValidPlan(plan)
    /\ Stored
    /\ plan.Length = MaxLen
    /\ SumOfMinimums(plan) > 0
    /\ SumOfMinimums(plan) < plan.Length
    /\ Len(state.Result) = MaxLen

\* C2: for a valid plan, the stored result holds at least m members of the
\* character set of every enabled class with minimum m, for every
\* override_special.
C2_MinimumsMet ==
    (ValidPlan(plan) /\ Stored) =>
        /\ plan.Upper => Count(state.Result, Range(upperChars)) >= plan.MinUpper
        /\ plan.Lower => Count(state.Result, Range(lowerChars)) >= plan.MinLower
        /\ plan.Number => Count(state.Result, Range(numChars)) >= plan.MinNumeric
        /\ plan.Special =>
             Count(state.Result,
                   IF plan.OverrideSpecial # <<>>
                   THEN Range(plan.OverrideSpecial)
                   ELSE Range(defaultSpecialChars)) >= plan.MinSpecial

\* C3: every character of the stored result is a member of the combined
\* pool of the enabled classes; a class whose flag is false adds none.
C3_ResultInPool ==
    Stored => Range(state.Result) \subseteq EnabledPool(plan)

\* C4: createString called with length < min_upper + min_lower +
\* min_numeric + min_special ends with an error diagnostic and no state; it
\* does not panic and stores nothing.
C4_NegativeRemainderIsError ==
    (CreateEnded /\ plan.Length < SumOfMinimums(plan)) =>
        /\ outcome = "returned"
        /\ HasError(diagnostics)
        /\ ~state.set

\* C5: with every class disabled, all minimums zero and length > 0,
\* createString ends with an error diagnostic and no state; it does not
\* panic.
C5_EmptyPoolIsError ==
    (/\ CreateEnded
     /\ ~plan.Upper /\ ~plan.Lower /\ ~plan.Number /\ ~plan.Special
     /\ AllMinimumsZero(plan)
     /\ plan.Length > 0) =>
        /\ outcome = "returned"
        /\ HasError(diagnostics)
        /\ ~state.set

\* C6 as claimed: an empty override_special disables the special class also
\* when special is true, so a stored result holds none of the default
\* special characters.
C6_EmptyOverrideDisablesSpecial ==
    (Stored /\ plan.OverrideSpecial = <<>> /\ plan.Special) =>
        Count(state.Result, Range(defaultSpecialChars)) = 0

\* C6 amended: an empty override_special leaves the special class on its
\* default character set: with special true the pool holds the default
\* special characters, and a stored result holds at least min_special of
\* them.
C6_EmptyOverrideKeepsDefault ==
    (plan.OverrideSpecial = <<>> /\ plan.Special) =>
        /\ Range(defaultSpecialChars) \subseteq Range(chars(plan))
        /\ Stored =>
             Count(state.Result, Range(defaultSpecialChars)) >= plan.MinSpecial

\* C6 witness: an empty override_special, special true, and a stored result
\* whose special minimum is met by default special characters.
C6_Witness ==
    /\ Stored
    /\ plan.OverrideSpecial = <<>>
    /\ plan.Special
    /\ plan.MinSpecial > 0
    /\ plan.Length > plan.MinSpecial
    /\ Count(state.Result, Range(defaultSpecialChars)) = plan.Length

\* the buffer reordered by ascending key, equal keys in buffer order:
\* position p of the buffer goes to its rank among the pairs (key, position)
Rank(keys, p) ==
    1 + Cardinality({q \in DOMAIN keys :
                        \/ keys[q] < keys[p]
                        \/ keys[q] = keys[p] /\ q < p})

StableByKey(buf, keys) ==
    [r \in DOMAIN buf |-> buf[CHOOSE p \in DOMAIN buf : Rank(keys, p) = r]]

\* C7: the final reordering arranges the buffer by ascending order key,
\* stably: the stored result is the buffer taken at its positions sorted by
\* key, positions with equal keys in buffer order.
C7_StableByKey ==
    [][(pc = "order" /\ state'.set) => state'.Result = StableByKey(result, order')]_vars

\* C8: when the random source fails at a draw, generateRandomBytes returns
\* no bytes, createString ends with an error diagnostic and the state stays
\* unset; a state is set only when no draw failed.
C8_NoPartialResult ==
    /\ \A r \in generateRandomBytes(chars(plan), 1) :
          r.err => r.bytes = <<>>
    /\ entropyFailed =>
          /\ pc = "done"
          /\ outcome = "returned"
          /\ HasError(diagnostics)
          /\ diagnostics[Len(diagnostics)] = ErrRandomBytes
          /\ ~state.set
    /\ state.set => (~entropyFailed /\ ~HasError(diagnostics))

\* C8 witness: the source failed after at least one draw had succeeded.
C8_Witness ==
    /\ entropyFailed
    /\ pc = "done"
    /\ Len(result) > 0
    /\ ~state.set

\* C9 as claimed: length 0 with all minimums 0 ends with the empty string
\* stored and no error, also when the request comes through validation.
C9_EmptyStringNoError ==
    (pc = "done" /\ plan.Length = 0 /\ AllMinimumsZero(plan)) =>
        /\ state.set
        /\ state.Result = <<>>
        /\ ~HasError(diagnostics)

\* C9 amended: createString called with length 0 and all minimums 0 stores
\* the empty string without an error; on the path from validation,
\* lengthValidator adds "expected length to be at least 1" and the request
\* is rejected before createString.
C9_EmptyStringOnlyWithoutValidation ==
    (plan.Length = 0 /\ AllMinimumsZero(plan)) =>
        /\ pc = "validateConfig" => diagnostics = <<ErrLengthAtLeastOne>>
        /\ pc = "done" =>
             \/ /\ outcome = "rejected"
                /\ diagnostics = <<ErrLengthAtLeastOne>>
                /\ ~state.set
             \/ /\ outcome = "returned"
                /\ diagnostics = <<>>
                /\ state.set
                /\ state.Result = <<>>

\* C9 witness: a request of length 0 rejected by validation.
C9_Witness ==
    /\ plan.Length = 0
    /\ AllMinimumsZero(plan)
    /\ pc = "done"
    /\ outcome = "rejected"

\* C10: validateLength adds one error diagnostic when length is less than
\* the sum of the four minimums, and none when length is at least the sum.
C10_ValidateLengthExact ==
    [][pc = "validateConfig" =>
          IF plan.Length < plan.MinUpper + plan.MinLower + plan.MinNumeric + plan.MinSpecial
          THEN /\ Len(diagnostics') = Len(diagnostics) + 1
               /\ diagnostics'[Len(diagnostics')] = ErrLengthLessThanSum
          ELSE diagnostics' = diagnostics]_vars

\* C10 witness: validateLength rejected a config whose length, at least 1,
\* is less than the sum of its minimums, with its one diagnostic.
C10_Witness ==
    /\ pc = "done"
    /\ outcome = "rejected"
    /\ plan.Length >= 1
    /\ plan.Length < SumOfMinimums(plan)
    /\ diagnostics = <<ErrLengthLessThanSum>>

\* C17: the final reordering only permutes the buffer: for all order keys
\* every character occurs in the stored result as often as in the buffer of
\* the minimum and remainder draws.
C17_ReorderingPermutes ==
    [][(pc = "order" /\ state'.set) =>
          \A c \in Range(result) \cup Range(state'.Result) :
              Count(state'.Result, {c}) = Count(result, {c})]_vars

\* C17 witness: a stored result of SortLen characters, not all the same,
\* whose keys made the sort move elements.
C17_Witness ==
    /\ Stored
    /\ Len(state.Result) = SortLen
    /\ Cardinality(Range(state.Result)) >= 2
    /\ \E i \in 1..(Len(order) - 1) : order[i + 1] < order[i]

\* the id rule of the string resources: id is result when not sensitive, and
\* "none" whatever the result when sensitive
IdRule(st) ==
    /\ ~sensitive => st.ID = st.Result
    /\ sensitive =>
         /\ st.ID = idNone
         /\ st.Result # idNone => st.ID # st.Result

UpgradeFailed(u) == u.err /\ u.state = NilState

\* the upgrade returned the raw state with bcrypt_hash set to a hash of result
\* and every other key as it was
UpgradeSucceeded(raw, u) ==
    /\ ~u.err
    /\ ~u.state.nil
    /\ DOMAIN u.state.m = (DOMAIN raw.m) \cup {"bcrypt_hash"}
    /\ \E h \in generateHash(raw.m["result"].v) :
          ~h.err /\ u.state.m["bcrypt_hash"] = [type |-> "string", v |-> h.hash]
    /\ \A k \in (DOMAIN raw.m) \ {"bcrypt_hash"} : u.state.m[k] = raw.m[k]

\* C18 as stated: the upgrade fails when the raw state is nil or its result
\* is not a string, and otherwise returns the state with bcrypt_hash set and
\* every other key unchanged.
C18_UpgradeAlwaysHashes ==
    [][pc = "upgrade" =>
         IF rawState.nil \/ ~resultIsString(rawState)
         THEN UpgradeFailed(upgraded')
         ELSE UpgradeSucceeded(rawState, upgraded')]_vars

\* C18 amended: the upgrade fails when the raw state is nil or its result is
\* not a string; otherwise it either fails because generateHash failed, or
\* returns the state with bcrypt_hash set to a hash of result and every other
\* key unchanged.
C18_UpgradeHashesOrFails ==
    [][pc = "upgrade" =>
         IF rawState.nil \/ ~resultIsString(rawState)
         THEN UpgradeFailed(upgraded')
         ELSE \/ UpgradeFailed(upgraded')
              \/ UpgradeSucceeded(rawState, upgraded')]_vars

\* C18 witness: an upgraded state that carries result, length and the hash of
\* a non-empty result.
C18_Witness ==
    /\ upgraded.set
    /\ ~upgraded.err
    /\ DOMAIN upgraded.state.m = RawKeys
    /\ upgraded.state.m["result"].v # <<>>
    /\ upgraded.state.m["length"].type = "float64"

\* s is the beginning of t
IsPrefix(s, t) == Len(s) <= Len(t) /\ s = SubSeq(t, 1, Len(s))

\* the two calls have the same non-empty seed
SameSeed(a, b) == a.set /\ b.set /\ a.seed # "" /\ a.seed = b.seed

C12_ShuffleLength ==
    shuffled.set =>
        IF Len(shInput) = 0 \/ shuffled.outputLength = 0
        THEN shuffled.result = <<>>
        ELSE /\ Len(shuffled.result) = shuffled.outputLength
             /\ \A x \in DOMAIN shuffled.result : shuffled.result[x] \in Range(shInput)

\* C12 witness: more elements were requested than the input has, and were
\* returned.
C12_Witness ==
    /\ shuffled.set
    /\ Len(shInput) >= 2
    /\ shuffled.outputLength > Len(shInput)
    /\ Len(shuffled.result) = shuffled.outputLength

\* the aligned block b (from 0) of n output positions, cut at the output's end
Block(s, n, b) ==
    SubSeq(s, b * n + 1, IF (b + 1) * n <= Len(s) THEN (b + 1) * n ELSE Len(s))

\* C13: every complete aligned block of n = len(input) output elements is a
\* permutation of the input, its multiset that of the input, and a trailing
\* incomplete block holds no input position twice.
C13_BlocksArePermutations ==
    (shuffled.set /\ Len(shInput) > 0) =>
        LET n == Len(shInput) IN
        \A b \in 0..(shuffled.outputLength \div n) :
            LET pos == Block(shuffled.positions, n, b)
                res == Block(shuffled.result, n, b)
            IN /\ Cardinality(Range(pos)) = Len(pos)
               /\ Len(pos) = n =>
                    /\ Range(pos) = 1..n
                    /\ \A c \in Range(shInput) : Count(res, {c}) = Count(shInput, {c})

\* C13 witness: an input with a repeated element, returned as two complete
\* blocks in different orders.
C13_Witness ==
    /\ shuffled.set
    /\ Len(shInput) >= 2
    /\ Cardinality(Range(shInput)) < Len(shInput)
    /\ shuffled.outputLength = 2 * Len(shInput)
    /\ Block(shuffled.positions, Len(shInput), 0) # Block(shuffled.positions, Len(shInput), 1)

\* C14: for a fixed seed and input, the result for a shorter outputLength is
\* the beginning of the result for a longer one.
C14_PrefixConsistent ==
    [][SameSeed(shuffled, shuffled') =>
          IF shuffled.outputLength <= shuffled'.outputLength
          THEN IsPrefix(shuffled.result, shuffled'.result)
          ELSE IsPrefix(shuffled'.result, shuffled.result)]_vars

\* C14 witness: a seeded call for more elements than the input has, after a
\* call with the same seed for another length.
C14_Witness ==
    /\ shuffled.set
    /\ shuffled.repeats = "seed"
    /\ Len(shInput) >= 2
    /\ shuffled.outputLength > Len(shInput)
    /\ Cardinality(Range(shuffled.result)) >= 2

\* the result holds the minimum count of every enabled class of the plan
MinimumsMetBy(p, res) ==
    /\ p.Upper => Count(res, Range(upperChars)) >= p.MinUpper
    /\ p.Lower => Count(res, Range(lowerChars)) >= p.MinLower
    /\ p.Number => Count(res, Range(numChars)) >= p.MinNumeric
    /\ p.Special =>
         Count(res, IF p.OverrideSpecial # <<>>
                    THEN Range(p.OverrideSpecial)
                    ELSE Range(defaultSpecialChars)) >= p.MinSpecial

\* the invocation stored the buffer and the keys it drew itself
BuiltFromOwnDraws(inv) ==
    /\ inv.state.Result = inv.result
    /\ Len(inv.order) = Len(inv.result)

\* the invocation has stored a result
StoredBy(inv) == inv.set /\ inv.pc = "done" /\ inv.state.set

\* the step of the running invocation leaves the locals of the other as they
\* were, and a switch changes the locals of neither
InvocationsIsolated ==
    [][IF running' = running
       THEN peer' = peer
       ELSE peer' = current /\ current' = peer]_vars

\* C15: under every interleaving of two concurrent createString calls, each
\* stored result is built from the draws of its own invocation only and has
\* the length and the minimum counts of its own plan.
C15_ConcurrentCreatesMeetOwnPlan ==
    \A inv \in {current, peer} :
        StoredBy(inv) =>
            /\ BuiltFromOwnDraws(inv)
            /\ Len(inv.state.Result) = inv.plan.Length
            /\ MinimumsMetBy(inv.plan, inv.state.Result)

\* the part of C15 that is about sharing: own draws and own length
ConcurrentCreatesOwnDrawsAndLength ==
    \A inv \in {current, peer} :
        StoredBy(inv) =>
            /\ BuiltFromOwnDraws(inv)
            /\ Len(inv.state.Result) = inv.plan.Length

====
